---- MODULE Spec2Model ----
(***************************************************************************)
(* A model of realm::SyncUser (ObjectStore/src/sync/sync_user.cpp): the    *)
(* authentication state, the refresh token and the two maps of weakly held *)
(* sessions of one user, driven by several threads that call its public    *)
(* methods.  Every method is cut into steps at the places where its thread *)
(* can be observed by another one: where it takes or releases m_mutex and  *)
(* where it calls into a SyncSession.                                      *)
(***************************************************************************)
EXTENDS Integers, Sequences, FiniteSets, TLC

\* ---------------------------------------------------------------- bounds
MaxSessions == 2          \* SyncSession objects that ever exist

Threads  == {"t1", "t2"}      \* threads calling into the user
Urls     == {1, 2}            \* realm URLs, ordered as std::map orders its keys
Tokens   == {"tok1", "tok2"}  \* refresh token values
Sessions == 1..MaxSessions

NoSession == 0            \* nullptr / no entry for the key
NoThread  == "none"       \* m_mutex is free

States == {"Active", "LoggedOut", "Error"}

\* session->config().realm_url: fixed per session; two sessions may share a URL
realm_url(s) == ((s - 1) % Cardinality(Urls)) + 1

VARIABLES
    m_state,             \* SyncUser::m_state
    m_refresh_token,     \* SyncUser::m_refresh_token
    m_is_admin,          \* SyncUser::m_is_admin (immutable)
    m_sessions,          \* url -> weak_ptr<SyncSession>  (NoSession: no entry)
    m_waiting_sessions,  \* url -> weak_ptr<SyncSession>
    m_mutex,             \* the thread that holds the lock, or NoThread
    alive,               \* sessions some strong reference keeps alive
    in_error,            \* sessions whose is_in_error_state() is true
    pc,                  \* per thread: where it is in its current call
    sessions_to_revive,  \* per thread: the local vector of strong references
    it,                  \* per thread: keys log_out's loop has still to visit
    ptr,                 \* per thread: the strong reference log_out's loop holds
    call,                \* per thread: the call it is in and what it has done
    registered,          \* url -> the live session of the last accepted registration
    last                 \* the step just taken: which call, from where, its result

vars == <<m_state, m_refresh_token, m_is_admin, m_sessions, m_waiting_sessions,
          m_mutex, alive, in_error, pc, sessions_to_revive, it, ptr,
          call, registered, last>>

\* ------------------------------------------------------------ helpers
Min(S) == CHOOSE x \in S : \A y \in S : x <= y

Range(q) == {q[i] : i \in 1..Len(q)}

Zero == [s \in Sessions |-> 0]

EmptyMap == [u \in Urls |-> NoSession]

\* the keys a map holds an entry for
Keys(m) == {u \in Urls : m[u] # NoSession}

\* weak_ptr::lock(): the session, or nullptr once it is gone
lock(w) == IF w \in alive THEN w ELSE NoSession

\* weak_ptr::expired()
expired(w) == w \notin alive

\* SyncSession::is_in_error_state()
is_in_error_state(s) == s \in in_error

\* the user at one instant
Snap == [state    |-> m_state,
         token    |-> m_refresh_token,
         sessions |-> m_sessions,
         waiting  |-> m_waiting_sessions]

NoSnap == [state |-> "-", token |-> "-", sessions |-> EmptyMap, waiting |-> EmptyMap]

\* a thread that is in no call; of a call in progress: its operation and
\* session, the user as it found it, the session calls it has made, the
\* sessions it set out to revive, and for update_refresh_token(t) the token
\* refresh_token() owes it: t, or the token of the latest update_refresh_token
\* that ran its critical section after this one
NoCall == [op |-> "-", s |-> NoSession, pre |-> NoSnap,
           log_outs |-> Zero, revives |-> Zero, worklist |-> <<>>,
           tok |-> "-"]

\* a step that neither begins a call nor returns from one
NoStep == [op |-> "-", began |-> FALSE, returned |-> FALSE, again |-> FALSE,
           s |-> NoSession, tok |-> "-", url |-> 0, pre |-> NoSnap,
           prior |-> NoSession,
           ret |-> "-", ret_session |-> NoSession, ret_sessions |-> <<>>,
           log_outs |-> Zero, revives |-> Zero, binds |-> Zero,
           meta |-> <<>>, worklist |-> <<>>]

\* the step that begins a call of op, and the user as the call finds it
Begin(op) == [NoStep EXCEPT !.op = op, !.began = TRUE, !.pre = Snap]

\* the step that begins a log_out, and whether a log_out returned in the step
\* before it
BeginLogOut == [Begin("log_out") EXCEPT
                   !.again = last.returned /\ last.op = "log_out"]

\* a thread is between two calls
Idle(t) == pc[t] = "done"

\* strong references the threads hold: a session one of them holds cannot expire
Held(s) ==
    \E t \in Threads :
        \/ s \in Range(sessions_to_revive[t])
        \/ ptr[t] = s

\* std::map::erase
erase(m, u) == [m EXCEPT ![u] = NoSession]

\* m[u] = session
insert(m, u, s) == [m EXCEPT ![u] = s]

\* the update issued for admin users too
perform_metadata_update_always(update) == <<update>>

\* lines 110-115 and 146-151: the metadata updates a call of a non-admin user
\* hands to SyncManager::shared().perform_metadata_update
perform_metadata_update(update) == IF m_is_admin THEN <<>> ELSE <<update>>

\* ------------------------------------------------- SyncUser::all_sessions
\* the loop advancing past the entry that follows an erased one
RECURSIVE all_sessions_loop_skipping(_, _, _)
all_sessions_loop_skipping(keys, m, out) ==
    IF keys = {} THEN [sessions |-> m, out |-> out]
    ELSE LET u == Min(keys)
             ptr_to_session == lock(m[u])
         IN  IF ptr_to_session # NoSession /\ ~is_in_error_state(ptr_to_session)
             THEN all_sessions_loop_skipping(keys \ {u}, m,
                                             Append(out, ptr_to_session))
             ELSE LET rest == keys \ {u}
                  IN  all_sessions_loop_skipping(
                          IF rest = {} THEN {} ELSE rest \ {Min(rest)},
                          erase(m, u), out)

\* the loop of lines 52-62 over the keys not yet visited, in key order
RECURSIVE all_sessions_loop(_, _, _)
all_sessions_loop(keys, m, out) ==
    IF keys = {} THEN [sessions |-> m, out |-> out]
    ELSE LET u == Min(keys)
             ptr_to_session == lock(m[u])
         IN  IF ptr_to_session # NoSession /\ ~is_in_error_state(ptr_to_session)
             THEN all_sessions_loop(keys \ {u}, m, Append(out, ptr_to_session))
             ELSE all_sessions_loop(keys \ {u}, erase(m, u), out)

\* the body without the check of line 49
all_sessions_body_unguarded ==
    all_sessions_loop(Keys(m_sessions), m_sessions, <<>>)

all_sessions_body ==
    IF m_state = "Error"
    THEN [sessions |-> m_sessions, out |-> <<>>]
    ELSE all_sessions_loop(Keys(m_sessions), m_sessions, <<>>)

all_sessions(t) ==
    /\ Idle(t)
    /\ m_mutex = NoThread
    /\ m_sessions' = all_sessions_body.sessions
    /\ last' = [Begin("all_sessions") EXCEPT
                   !.returned = TRUE,
                   !.ret_sessions = all_sessions_body.out]
    /\ UNCHANGED <<m_state, m_refresh_token, m_is_admin, m_waiting_sessions,
                   m_mutex, alive, in_error, pc, sessions_to_revive,
                   it, ptr, call, registered>>

\* ---------------------------------------------- SyncUser::session_for_url
session_for_url_body(url) ==
    IF m_state = "Error"
    THEN [sessions |-> m_sessions, locked |-> NoSession]
    ELSE IF m_sessions[url] = NoSession
    THEN [sessions |-> m_sessions, locked |-> NoSession]
    ELSE LET locked == lock(m_sessions[url])
         IN  [sessions |-> IF locked = NoSession
                           THEN erase(m_sessions, url) ELSE m_sessions,
              locked   |-> locked]

session_for_url(t, url) ==
    /\ Idle(t)
    /\ m_mutex = NoThread
    /\ m_sessions' = session_for_url_body(url).sessions
    /\ last' = [Begin("session_for_url") EXCEPT
                   !.returned = TRUE,
                   !.url = url,
                   !.ret_session = session_for_url_body(url).locked]
    /\ UNCHANGED <<m_state, m_refresh_token, m_is_admin, m_waiting_sessions,
                   m_mutex, alive, in_error, pc, sessions_to_revive,
                   it, ptr, call, registered>>

\* ----------------------------------------- SyncUser::update_refresh_token
\* the loop moving every waiting entry, resolvable or not
RECURSIVE revive_waiting_unchecked(_, _, _)
revive_waiting_unchecked(keys, m, out) ==
    IF keys = {} THEN [sessions |-> m, sessions_to_revive |-> out]
    ELSE LET u == Min(keys)
             p == m_waiting_sessions[u]
         IN  revive_waiting_unchecked(keys \ {u}, insert(m, u, p), Append(out, p))

\* the loop of lines 99-104 over the waiting entries not yet visited
RECURSIVE revive_waiting(_, _, _)
revive_waiting(keys, m, out) ==
    IF keys = {} THEN [sessions |-> m, sessions_to_revive |-> out]
    ELSE LET u == Min(keys)
             p == lock(m_waiting_sessions[u])
         IN  IF p # NoSession
             THEN revive_waiting(keys \ {u}, insert(m, u, p), Append(out, p))
             ELSE revive_waiting(keys \ {u}, m, out)

\* the waiting map left as it is
clear_waiting_skipped(m) == m

\* m_waiting_sessions.clear()
clear_waiting(m) == EmptyMap

\* the critical section with line 93 left out: an Active user keeps its token
update_refresh_token_body_keeps_token(token) ==
    CASE m_state = "Error" ->
           [returned |-> TRUE, state |-> m_state, token |-> m_refresh_token,
            sessions |-> m_sessions, waiting |-> m_waiting_sessions,
            sessions_to_revive |-> <<>>]
      [] m_state = "Active" ->
           [returned |-> FALSE, state |-> m_state, token |-> m_refresh_token,
            sessions |-> m_sessions, waiting |-> m_waiting_sessions,
            sessions_to_revive |-> <<>>]
      [] m_state = "LoggedOut" ->
           LET r == revive_waiting(Keys(m_waiting_sessions), m_sessions, <<>>)
           IN  [returned |-> FALSE, state |-> "Active", token |-> token,
                sessions |-> r.sessions,
                waiting |-> clear_waiting(m_waiting_sessions),
                sessions_to_revive |-> r.sessions_to_revive]

\* the critical section with line 97 left out: a LoggedOut user becomes Active
\* with the token it had
update_refresh_token_body_stale_token(token) ==
    CASE m_state = "Error" ->
           [returned |-> TRUE, state |-> m_state, token |-> m_refresh_token,
            sessions |-> m_sessions, waiting |-> m_waiting_sessions,
            sessions_to_revive |-> <<>>]
      [] m_state = "Active" ->
           [returned |-> FALSE, state |-> m_state, token |-> token,
            sessions |-> m_sessions, waiting |-> m_waiting_sessions,
            sessions_to_revive |-> <<>>]
      [] m_state = "LoggedOut" ->
           LET r == revive_waiting(Keys(m_waiting_sessions), m_sessions, <<>>)
           IN  [returned |-> FALSE, state |-> "Active", token |-> m_refresh_token,
                sessions |-> r.sessions,
                waiting |-> clear_waiting(m_waiting_sessions),
                sessions_to_revive |-> r.sessions_to_revive]

\* the critical section of lines 88-116
update_refresh_token_body(token) ==
    CASE m_state = "Error" ->
           [returned |-> TRUE, state |-> m_state, token |-> m_refresh_token,
            sessions |-> m_sessions, waiting |-> m_waiting_sessions,
            sessions_to_revive |-> <<>>]
      [] m_state = "Active" ->
           [returned |-> FALSE, state |-> m_state, token |-> token,
            sessions |-> m_sessions, waiting |-> m_waiting_sessions,
            sessions_to_revive |-> <<>>]
      [] m_state = "LoggedOut" ->
           LET r == revive_waiting(Keys(m_waiting_sessions), m_sessions, <<>>)
           IN  [returned |-> FALSE, state |-> "Active", token |-> token,
                sessions |-> r.sessions,
                waiting |-> clear_waiting(m_waiting_sessions),
                sessions_to_revive |-> r.sessions_to_revive]

update_refresh_token(t, token) ==
    /\ Idle(t)
    /\ m_mutex = NoThread
    /\ LET r == update_refresh_token_body(token)
           update == <<"set_state", token>>
           finished == r.sessions_to_revive = <<>>
       IN  /\ m_state' = r.state
           /\ m_refresh_token' = r.token
           /\ m_sessions' = r.sessions
           /\ m_waiting_sessions' = r.waiting
           /\ sessions_to_revive' = [sessions_to_revive EXCEPT
                                        ![t] = r.sessions_to_revive]
           /\ pc' = [pc EXCEPT ![t] = IF finished THEN "done" ELSE "revive"]
           /\ call' = [o \in Threads |->
                         IF o = t
                         THEN IF finished THEN NoCall
                              ELSE [NoCall EXCEPT
                                       !.op = "update_refresh_token",
                                       !.worklist = r.sessions_to_revive,
                                       !.tok = token]
                         ELSE IF ~r.returned /\ call[o].op = "update_refresh_token"
                              THEN [call[o] EXCEPT !.tok = token]
                              ELSE call[o]]
           /\ last' = [Begin("update_refresh_token") EXCEPT
                          !.returned = finished,
                          !.tok = token,
                          !.worklist = r.sessions_to_revive,
                          !.meta = IF r.returned THEN <<>> ELSE perform_metadata_update(update)]
    /\ UNCHANGED <<registered, m_is_admin, m_mutex, alive, in_error, it, ptr>>

\* -------------------------------------------------- SyncUser::log_out
\* no admin check
log_out_refused_never == FALSE

\* line 127: admin users cannot be logged out
log_out_refused == m_is_admin

\* no early return
log_out_returns_never == FALSE

\* line 132: nothing to do
log_out_returns == m_state = "LoggedOut"

\* the active map left as it is
clear_sessions_skipped(m) == m

\* m_sessions.clear()
clear_sessions(m) == EmptyMap

\* lines 125-135: the admin check, the lock, the state check and the new state
log_out(t) ==
    /\ Idle(t)
    /\ IF log_out_refused
       THEN /\ last' = [BeginLogOut EXCEPT !.returned = TRUE]
            /\ UNCHANGED <<m_state, m_mutex, it, pc, call>>
       ELSE /\ m_mutex = NoThread
            /\ IF log_out_returns
               THEN /\ last' = [BeginLogOut EXCEPT !.returned = TRUE]
                    /\ UNCHANGED <<m_state, m_mutex, it, pc, call>>
               ELSE /\ m_state' = "LoggedOut"
                    /\ m_mutex' = t
                    /\ it' = [it EXCEPT ![t] = Keys(m_sessions)]
                    /\ pc' = [pc EXCEPT ![t] = "log_out_loop"]
                    /\ call' = [call EXCEPT ![t] =
                                  [NoCall EXCEPT !.op = "log_out",
                                                 !.pre = Snap]]
                    /\ last' = BeginLogOut
    /\ UNCHANGED <<registered, m_refresh_token, m_is_admin, m_sessions, m_waiting_sessions,
                   alive, in_error, sessions_to_revive, ptr>>

\* lines 138-139: the loop reaches its next entry and resolves it
log_out_next(t) ==
    /\ pc[t] = "log_out_loop"
    /\ it[t] # {}
    /\ LET u == Min(it[t])
           p == lock(m_sessions[u])
       IN  IF p # NoSession
           THEN /\ ptr' = [ptr EXCEPT ![t] = p]
                /\ pc' = [pc EXCEPT ![t] = "session_log_out"]
                /\ it' = it
           ELSE /\ it' = [it EXCEPT ![t] = @ \ {u}]
                /\ UNCHANGED <<ptr, pc>>
    /\ last' = NoStep
    /\ UNCHANGED <<registered, m_state, m_refresh_token, m_is_admin, m_sessions,
                   m_waiting_sessions, m_mutex, alive, in_error,
                   sessions_to_revive, call>>

\* lines 140-141: ptr->log_out() runs, then the session joins the waiting map
session_log_out(t) ==
    /\ pc[t] = "session_log_out"
    /\ LET u == Min(it[t])
           p == ptr[t]
       IN  /\ m_waiting_sessions' = insert(m_waiting_sessions, u, p)
           /\ call' = [call EXCEPT ![t].log_outs[p] = @ + 1]
           /\ it' = [it EXCEPT ![t] = @ \ {u}]
    /\ ptr' = [ptr EXCEPT ![t] = NoSession]
    /\ pc' = [pc EXCEPT ![t] = "log_out_loop"]
    /\ last' = NoStep
    /\ UNCHANGED <<registered, m_state, m_refresh_token, m_is_admin, m_sessions, m_mutex,
                   alive, in_error, sessions_to_revive>>

\* lines 144-152: the active map is cleared, the metadata marked, the lock released
log_out_finish(t) ==
    /\ pc[t] = "log_out_loop"
    /\ it[t] = {}
    /\ m_sessions' = clear_sessions(m_sessions)
    /\ m_mutex' = NoThread
    /\ pc' = [pc EXCEPT ![t] = "done"]
    /\ call' = [call EXCEPT ![t] = NoCall]
    /\ last' = [NoStep EXCEPT
                   !.op = "log_out",
                   !.returned = TRUE,
                   !.pre = call[t].pre,
                   !.log_outs = call[t].log_outs,
                   !.meta = perform_metadata_update(<<"mark_for_removal">>)]
    /\ UNCHANGED <<registered, m_state, m_refresh_token, m_is_admin, m_waiting_sessions,
                   alive, in_error, sessions_to_revive, it, ptr>>

\* ------------------------------------------------ SyncUser::invalidate
\* the assignment of line 157 without the lock of line 156
invalidate_unlocked(t) ==
    /\ Idle(t)
    /\ m_state' = "Error"
    /\ last' = [Begin("invalidate") EXCEPT !.returned = TRUE]
    /\ UNCHANGED <<m_refresh_token, m_is_admin, m_sessions, m_waiting_sessions,
                   m_mutex, alive, in_error, pc, sessions_to_revive,
                   it, ptr, call, registered>>

invalidate(t) ==
    /\ Idle(t)
    /\ m_mutex = NoThread
    /\ m_state' = "Error"
    /\ last' = [Begin("invalidate") EXCEPT !.returned = TRUE]
    /\ UNCHANGED <<m_refresh_token, m_is_admin, m_sessions, m_waiting_sessions,
                   m_mutex, alive, in_error, pc, sessions_to_revive,
                   it, ptr, call, registered>>

\* ---------------------------- SyncUser::refresh_token and SyncUser::state
refresh_token(t) ==
    /\ Idle(t)
    /\ m_mutex = NoThread
    /\ last' = [Begin("refresh_token") EXCEPT
                   !.returned = TRUE, !.ret = m_refresh_token]
    /\ UNCHANGED <<m_state, m_refresh_token, m_is_admin, m_sessions,
                   m_waiting_sessions, m_mutex, alive, in_error, pc,
                   sessions_to_revive, it, ptr, call, registered>>

state(t) ==
    /\ Idle(t)
    /\ m_mutex = NoThread
    /\ last' = [Begin("state") EXCEPT !.returned = TRUE, !.ret = m_state]
    /\ UNCHANGED <<m_state, m_refresh_token, m_is_admin, m_sessions,
                   m_waiting_sessions, m_mutex, alive, in_error, pc,
                   sessions_to_revive, it, ptr, call, registered>>

\* --------------------------------------------- SyncUser::register_session
\* the lambda of lines 176-179
has_session(sessions, url) ==
    sessions[url] # NoSession /\ ~expired(sessions[url])

\* the check of the active map alone
register_throws_active_only(url) == has_session(m_sessions, url)

\* line 180: the registration is refused
register_throws(url) ==
    has_session(m_sessions, url) \/ has_session(m_waiting_sessions, url)

\* the switch with Error falling through to LoggedOut
register_session_maps_error_waits(session) ==
    LET url == realm_url(session)
    IN  CASE m_state = "Active" ->
               [sessions |-> insert(m_sessions, url, session),
                waiting  |-> m_waiting_sessions]
          [] m_state \in {"LoggedOut", "Error"} ->
               [sessions |-> m_sessions,
                waiting  |-> insert(m_waiting_sessions, url, session)]

\* the switch with the maps of Active and LoggedOut exchanged
register_session_maps_swapped(session) ==
    LET url == realm_url(session)
    IN  CASE m_state = "Active" ->
               [sessions |-> m_sessions,
                waiting  |-> insert(m_waiting_sessions, url, session)]
          [] m_state = "LoggedOut" ->
               [sessions |-> insert(m_sessions, url, session),
                waiting  |-> m_waiting_sessions]
          [] m_state = "Error" ->
               [sessions |-> m_sessions, waiting |-> m_waiting_sessions]

\* the switch with LoggedOut falling through to Active
register_session_maps_always_active(session) ==
    LET url == realm_url(session)
    IN  CASE m_state \in {"Active", "LoggedOut"} ->
               [sessions |-> insert(m_sessions, url, session),
                waiting  |-> m_waiting_sessions]
          [] m_state = "Error" ->
               [sessions |-> m_sessions, waiting |-> m_waiting_sessions]

\* the switch of lines 183-199: the two maps after a registration
register_session_maps(session) ==
    LET url == realm_url(session)
    IN  CASE m_state = "Active" ->
               [sessions |-> insert(m_sessions, url, session),
                waiting  |-> m_waiting_sessions]
          [] m_state = "LoggedOut" ->
               [sessions |-> m_sessions,
                waiting  |-> insert(m_waiting_sessions, url, session)]
          [] m_state = "Error" ->
               [sessions |-> m_sessions, waiting |-> m_waiting_sessions]

register_session(t, session) ==
    /\ Idle(t)
    /\ session \in alive
    /\ m_mutex = NoThread
    /\ LET url == realm_url(session)
           begin == [Begin("register_session") EXCEPT
                        !.s = session, !.url = url, !.prior = registered[url]]
           r == register_session_maps(session)
           revive == m_state = "Active" /\ ~m_is_admin
           bind == m_state = "Active" /\ m_is_admin
       IN  IF register_throws(url)
           THEN /\ UNCHANGED <<m_sessions, m_waiting_sessions, pc,
                               sessions_to_revive, call, registered>>
                /\ last' = [begin EXCEPT !.returned = TRUE,
                                         !.ret = "InvalidArgument"]
           ELSE /\ m_sessions' = r.sessions
                /\ m_waiting_sessions' = r.waiting
                /\ registered' = insert(registered, url, session)
                /\ sessions_to_revive' =
                       [sessions_to_revive EXCEPT
                           ![t] = IF revive THEN <<session>> ELSE <<>>]
                /\ pc' = [pc EXCEPT ![t] = IF revive THEN "revive" ELSE "done"]
                /\ call' = [call EXCEPT ![t] =
                              IF revive
                              THEN [NoCall EXCEPT !.op = "register_session",
                                                  !.s = session,
                                                  !.worklist = <<session>>]
                              ELSE NoCall]
                /\ last' = [begin EXCEPT
                               !.returned = ~revive,
                               !.ret = "registered",
                               !.binds[session] = IF bind THEN 1 ELSE 0]
    /\ UNCHANGED <<m_state, m_refresh_token, m_is_admin, m_mutex, alive,
                   in_error, it, ptr>>

\* ------------------------------------------ SyncSession::revive_if_needed
\* lines 121 and 191: the call is made for the next session, the lock not held
revive_if_needed(t) ==
    /\ pc[t] = "revive"
    /\ call' = [call EXCEPT ![t].revives[Head(sessions_to_revive[t])] = @ + 1]
    /\ pc' = [pc EXCEPT ![t] = "revive_state"]
    /\ last' = NoStep
    /\ UNCHANGED <<registered, m_state, m_refresh_token, m_is_admin, m_sessions,
                   m_waiting_sessions, m_mutex, alive, in_error,
                   sessions_to_revive, it, ptr>>

\* the session asks the user for its state, SyncUser::state() under the lock
revive_reads_state(t) ==
    /\ pc[t] = "revive_state"
    /\ m_mutex = NoThread
    /\ pc' = [pc EXCEPT ![t] = "revive_token"]
    /\ last' = [NoStep EXCEPT !.op = "revive_reads_state", !.ret = m_state]
    /\ UNCHANGED <<m_state, m_refresh_token, m_is_admin, m_sessions,
                   m_waiting_sessions, m_mutex, alive, in_error,
                   sessions_to_revive, it, ptr, call, registered>>

\* the session asks for the token, SyncUser::refresh_token() under the lock,
\* and the revival returns; after the last revival so does the call
revive_reads_token(t) ==
    /\ pc[t] = "revive_token"
    /\ m_mutex = NoThread
    /\ LET rest == Tail(sessions_to_revive[t])
           finished == rest = <<>>
       IN  /\ sessions_to_revive' = [sessions_to_revive EXCEPT ![t] = rest]
           /\ pc' = [pc EXCEPT ![t] = IF finished THEN "done" ELSE "revive"]
           /\ call' = [call EXCEPT ![t] = IF finished THEN NoCall ELSE @]
           /\ last' = IF finished
                      THEN [NoStep EXCEPT !.op = call[t].op,
                                          !.returned = TRUE,
                                          !.s = call[t].s,
                                          !.ret = m_refresh_token,
                                          !.revives = call[t].revives,
                                          !.worklist = call[t].worklist]
                      ELSE [NoStep EXCEPT !.op = "revive_reads_token",
                                          !.ret = m_refresh_token]
    /\ UNCHANGED <<registered, m_state, m_refresh_token, m_is_admin, m_sessions,
                   m_waiting_sessions, m_mutex, alive, in_error,
                   it, ptr>>

\* ------------------------------------------------------ the sessions
\* the last strong reference to a session goes away
session_expires(s) ==
    /\ s \in alive
    /\ ~Held(s)
    /\ alive' = alive \ {s}
    /\ in_error' = in_error \ {s}
    /\ registered' = [u \in Urls |-> IF registered[u] = s THEN NoSession
                                     ELSE registered[u]]
    /\ last' = NoStep
    /\ UNCHANGED <<m_state, m_refresh_token, m_is_admin, m_sessions,
                   m_waiting_sessions, m_mutex, pc,
                   sessions_to_revive, it, ptr, call>>

\* a session fails for good
session_fails(s) ==
    /\ s \in alive
    /\ s \notin in_error
    /\ in_error' = in_error \cup {s}
    /\ last' = NoStep
    /\ UNCHANGED <<m_state, m_refresh_token, m_is_admin, m_sessions,
                   m_waiting_sessions, m_mutex, alive, pc,
                   sessions_to_revive, it, ptr, call, registered>>

\* ------------------------------------------------------ the machine
\* SyncUser::SyncUser
Init ==
    /\ m_state = "Active"
    /\ m_refresh_token \in Tokens
    /\ m_is_admin \in BOOLEAN
    /\ m_sessions = EmptyMap
    /\ m_waiting_sessions = EmptyMap
    /\ m_mutex = NoThread
    /\ alive = Sessions
    /\ in_error = {}
    /\ pc = [t \in Threads |-> "done"]
    /\ sessions_to_revive = [t \in Threads |-> <<>>]
    /\ it = [t \in Threads |-> {}]
    /\ ptr = [t \in Threads |-> NoSession]
    /\ call = [t \in Threads |-> NoCall]
    /\ registered = EmptyMap
    /\ last = [NoStep EXCEPT
                  !.op = "SyncUser",
                  !.returned = TRUE,
                  !.meta = perform_metadata_update(<<"set_state", m_refresh_token>>)]

Next ==
    \/ \E t \in Threads : all_sessions(t)
    \/ \E t \in Threads, url \in Urls : session_for_url(t, url)
    \/ \E t \in Threads, token \in Tokens : update_refresh_token(t, token)
    \/ \E t \in Threads : log_out(t)
    \/ \E t \in Threads : log_out_next(t)
    \/ \E t \in Threads : session_log_out(t)
    \/ \E t \in Threads : log_out_finish(t)
    \/ \E t \in Threads : invalidate(t)
    \/ \E t \in Threads : refresh_token(t)
    \/ \E t \in Threads : state(t)
    \/ \E t \in Threads, s \in Sessions : register_session(t, s)
    \/ \E t \in Threads : revive_if_needed(t)
    \/ \E t \in Threads : revive_reads_state(t)
    \/ \E t \in Threads : revive_reads_token(t)
    \/ \E s \in Sessions : session_expires(s)
    \/ \E s \in Sessions : session_fails(s)

Spec == Init /\ [][Next]_vars

\* a thread inside a call goes on running, and a thread that waits for the
\* lock gets it if the lock is free again and again
Fairness ==
    /\ WF_vars(\E t \in Threads : \/ log_out_next(t)
                                   \/ session_log_out(t)
                                   \/ log_out_finish(t))
    /\ \A t \in Threads :
          /\ WF_vars(revive_if_needed(t))
          /\ SF_vars(revive_reads_state(t) \/ revive_reads_token(t))

FairSpec == Spec /\ Fairness

\* ------------------------------------------------------ the claims
\* a thread is inside a call to a session's log_out() or revive_if_needed()
InSessionCall(t) == pc[t] \in {"session_log_out", "revive_state", "revive_token"}

\* a map holds a live (resolvable) reference for the URL
Live(m, u) == m[u] # NoSession /\ m[u] \in alive

\* C1: once the state is Error, no step of any call by any thread, for an
\* admin or a non-admin user, makes it anything other than Error.
C1_ErrorIsPermanent == [][m_state = "Error" => m_state' = "Error"]_vars

\* C2: no thread is inside a session's log_out() or revive_if_needed() while
\* it holds the user's lock.
C2_NoSessionCallUnderLock ==
    \A t \in Threads : InSessionCall(t) => m_mutex # t

\* C3 as claimed: a register_session call for a URL for which an earlier
\* registration was accepted, its session still alive, fails with
\* InvalidArgument whatever the state, and changes nothing.
C3_SecondRegistrationFails ==
    (last.op = "register_session" /\ last.began /\ last.prior \in alive)
        => (last.ret = "InvalidArgument" /\ Snap = last.pre)

\* C3 as amended: a register_session call for a URL that has a live entry in
\* the active or the waiting map fails with InvalidArgument in every state
\* and changes neither map, nor the state, nor the token; an accepted
\* registration made in state Active or LoggedOut leaves such an entry.
C3_LiveEntryRefused ==
    /\ (last.op = "register_session" /\ last.began
          /\ (Live(last.pre.sessions, last.url) \/ Live(last.pre.waiting, last.url)))
        => (last.ret = "InvalidArgument" /\ last.returned /\ Snap = last.pre)
    /\ (last.op = "register_session" /\ last.began /\ last.ret = "registered"
          /\ last.pre.state \in {"Active", "LoggedOut"})
        => (Live(m_sessions, last.url) \/ Live(m_waiting_sessions, last.url))

\* a registration was refused in state Error, for a session registered before
C3_Witness ==
    /\ last.op = "register_session" /\ last.ret = "InvalidArgument"
    /\ last.prior \in alive
    /\ last.pre.state = "Error"
    /\ Live(last.pre.waiting, last.url)

\* what a session_for_url(u) call made now would return
Lookup(u) == session_for_url_body(u).locked

\* what an all_sessions() call made now would return
Enumerated == Range(all_sessions_body.out)

\* the step just taken is register_session's critical section, it accepted
\* the session, and the URL had no entry in either map
FreshRegistration ==
    /\ last.op = "register_session" /\ last.began /\ last.ret = "registered"
    /\ last.pre.sessions[last.url] = NoSession
    /\ last.pre.waiting[last.url] = NoSession

\* C4 as claimed: after an accepted registration of S for a fresh URL in state
\* Active or LoggedOut, session_for_url(S.realm_url) called next returns S.
C4_LookupReturnsRegistered ==
    (FreshRegistration /\ last.pre.state \in {"Active", "LoggedOut"})
        => Lookup(last.url) = last.s

\* C4 as amended: in state Active the lookup called next returns S; in state
\* LoggedOut it returns none, S being in the waiting map only.
C4_LookupAfterRegistration ==
    /\ (FreshRegistration /\ last.pre.state = "Active")
        => (Lookup(last.url) = last.s /\ m_sessions[last.url] = last.s)
    /\ (FreshRegistration /\ last.pre.state = "LoggedOut")
        => (/\ Lookup(last.url) = NoSession
            /\ m_sessions[last.url] = NoSession
            /\ m_waiting_sessions[last.url] = last.s)

\* a session was registered for a fresh URL while the user was logged out
C4_Witness ==
    /\ FreshRegistration /\ last.pre.state = "LoggedOut"
    /\ last.s \in alive

\* the step just taken is the critical section of an update_refresh_token
\* that found the user logged out
Relogin ==
    last.op = "update_refresh_token" /\ last.began /\ last.pre.state = "LoggedOut"

\* how often a session occurs in a list of sessions
Count(q, s) == Cardinality({i \in 1..Len(q) : q[i] = s})

\* the revival calls a returned update_refresh_token made: one per session of
\* its list
RevivedOnce ==
    (last.op = "update_refresh_token" /\ last.returned)
        => \A s \in Sessions : /\ last.revives[s] = Count(last.worklist, s)
                               /\ last.revives[s] <= 1

\* what the amended C5 keeps of C5: the maps and the revival list
ReloginMoves ==
    Relogin =>
        /\ m_state = "Active"
        /\ m_waiting_sessions = EmptyMap
        /\ \A u \in Urls :
              LET s == last.pre.waiting[u]
              IN  /\ (s # NoSession /\ s \in alive)
                      => (m_sessions[u] = s /\ Count(last.worklist, s) = 1)
                  /\ (s # NoSession /\ s \notin alive)
                      => (/\ Count(last.worklist, s) = 0
                          /\ \A v \in Urls : m_sessions[v] # s)
        /\ \A s \in Range(last.worklist) :
              \E u \in Urls : last.pre.waiting[u] = s

\* C5 as claimed: update_refresh_token on a logged-out user moves every
\* waiting session that resolves to the active map, a following all_sessions()
\* returns it, it gets exactly one revive_if_needed call of the update; every
\* expired waiting entry is dropped, not revived, in neither map; the waiting
\* map is empty.
C5_ReloginRevivesAll ==
    /\ ReloginMoves
    /\ RevivedOnce
    /\ Relogin =>
          \A u \in Urls :
              (last.pre.waiting[u] # NoSession /\ last.pre.waiting[u] \in alive)
                  => last.pre.waiting[u] \in Enumerated

\* C5 as amended: the same, but a following all_sessions() returns the moved
\* session only if it does not report a fatal error; a moved session that
\* does is pruned by that all_sessions() instead.
C5_ReloginRevives ==
    /\ ReloginMoves
    /\ RevivedOnce
    /\ Relogin =>
          \A u \in Urls :
              LET s == last.pre.waiting[u]
              IN  (s # NoSession /\ s \in alive)
                      => (s \in Enumerated <=> ~is_in_error_state(s))

\* an update_refresh_token logged the user in again with one live and one
\* expired waiting session
C5_Witness ==
    /\ Relogin
    /\ \E u, v \in Urls :
          /\ last.pre.waiting[u] \in alive
          /\ last.pre.waiting[v] # NoSession
          /\ last.pre.waiting[v] \notin alive

\* the step just taken is the return of a log_out that found the user Active
LoggedOutFromActive ==
    last.op = "log_out" /\ last.returned /\ ~last.began
        /\ last.pre.state = "Active"

\* C6: after log_out() of a non-admin Active user the state is LoggedOut,
\* all_sessions() returns nothing, every live session of the active map got
\* exactly one log_out notification of the call and is in the waiting map.
C6_LogOutMovesSessions ==
    LoggedOutFromActive =>
        /\ m_state = "LoggedOut"
        /\ Enumerated = {}
        /\ \A u \in Urls :
              LET s == last.pre.sessions[u]
              IN  (s # NoSession /\ s \in alive)
                      => (last.log_outs[s] = 1 /\ m_waiting_sessions[u] = s)
        /\ \A s \in Sessions :
              /\ last.log_outs[s] <= 1
              /\ last.log_outs[s] = 1 => last.pre.sessions[realm_url(s)] = s

\* a log_out of an Active user returned that moved two live sessions
C6_Witness ==
    /\ LoggedOutFromActive
    /\ ~m_is_admin
    /\ Cardinality({u \in Urls : Live(last.pre.sessions, u)}) = 2

\* C7: a log_out() called directly after a log_out() returned notifies no
\* session, issues no metadata update and leaves state, token and both maps
\* as they were.
C7_LogOutIdempotent ==
    (last.op = "log_out" /\ last.began /\ last.again)
        => /\ last.returned
           /\ Snap = last.pre
           /\ last.log_outs = Zero
           /\ last.meta = <<>>

\* a second log_out ran on a non-admin user with a live session waiting
C7_Witness ==
    /\ last.op = "log_out" /\ last.began /\ last.again
    /\ ~m_is_admin
    /\ \E u \in Urls : Live(m_waiting_sessions, u)

\* C8: log_out() of an admin user changes nothing, notifies no session and
\* issues no metadata update; an admin user is never LoggedOut.
C8_AdminLogOutNoOp ==
    /\ (last.op = "log_out" /\ m_is_admin)
        => /\ last.began /\ last.returned
           /\ Snap = last.pre
           /\ last.log_outs = Zero
           /\ last.meta = <<>>
    /\ m_is_admin => m_state # "LoggedOut"
    /\ m_is_admin => \A t \in Threads : pc[t] # "session_log_out"

\* log_out was called on an Active admin user with a live session
C8_Witness ==
    /\ last.op = "log_out" /\ m_is_admin
    /\ m_state = "Active"
    /\ \E u \in Urls : Live(m_sessions, u)

\* C9: in state Error all_sessions() returns nothing and session_for_url
\* returns none for every url, and neither changes either map.
C9_ErrorHidesSessions ==
    /\ (last.op = "all_sessions" /\ last.pre.state = "Error")
        => (last.ret_sessions = <<>> /\ Snap = last.pre)
    /\ (last.op = "session_for_url" /\ last.pre.state = "Error")
        => (last.ret_session = NoSession /\ Snap = last.pre)
    /\ m_state = "Error"
        => (Enumerated = {} /\ \A u \in Urls : Lookup(u) = NoSession)

\* all_sessions was called in state Error with a live, healthy session in the
\* active map
C9_Witness ==
    /\ last.op = "all_sessions" /\ last.pre.state = "Error"
    /\ \E u \in Urls : Live(m_sessions, u) /\ m_sessions[u] \notin in_error

\* C10 (invariant I1): between the critical sections of the calls, no URL has
\* a live reference in both the active and the waiting map.
C10_OneMapPerUrl ==
    m_mutex = NoThread
        => \A u \in Urls : ~(Live(m_sessions, u) /\ Live(m_waiting_sessions, u))

\* a log_out has just moved a live session from the active to the waiting map
C10_Witness ==
    /\ last.op = "log_out" /\ last.returned
    /\ \E u \in Urls : /\ Live(m_waiting_sessions, u)
                       /\ last.pre.sessions[u] = m_waiting_sessions[u]

\* C11: update_refresh_token and log_out called in state Error change neither
\* the token nor a map, make no logout or revival call and issue no metadata
\* update.
C11_ErrorCallsAreNoOps ==
    (last.op \in {"update_refresh_token", "log_out"} /\ last.pre.state = "Error")
        => /\ m_refresh_token = last.pre.token
           /\ m_sessions = last.pre.sessions
           /\ m_waiting_sessions = last.pre.waiting
           /\ last.log_outs = Zero
           /\ last.revives = Zero
           /\ last.worklist = <<>>
           /\ last.meta = <<>>

\* a session the user keeps no reference to: in neither map, in no thread's
\* list of sessions to revive, not the one a log_out loop holds
Untracked(s) ==
    /\ \A u \in Urls : m_sessions[u] # s /\ m_waiting_sessions[u] # s
    /\ ~Held(s)

\* the step just taken accepted a registration in state Error
DroppedRegistration ==
    /\ last.op = "register_session" /\ last.began /\ last.ret = "registered"
    /\ last.pre.state = "Error"

\* C12: a session registered in state Error (its URL without a live entry) is
\* put in neither map, is added to no list of sessions to revive and gets no
\* bind, revive or logout call from the registration; and a session the user does not track stays untracked, is
\* returned by no call and enters no list of sessions to revive and no
\* log_out loop (so is neither revived nor logged out), until a
\* register_session call is made for it.
C12_DroppedInError ==
    [][/\ DroppedRegistration'
            => /\ last'.returned
               /\ Snap' = last'.pre
               /\ last'.binds = Zero /\ last'.revives = Zero
               /\ last'.log_outs = Zero
               /\ \A u \in Urls : m_sessions'[u] # last'.s
                                    /\ m_waiting_sessions'[u] # last'.s
               /\ sessions_to_revive' = sessions_to_revive
       /\ \A s \in Sessions :
            (Untracked(s)
               /\ ~(last'.op = "register_session" /\ last'.began /\ last'.s = s))
            => /\ Untracked(s)'
               /\ last'.ret_session # s
               /\ s \notin Range(last'.ret_sessions)]_vars

\* a live session was registered in state Error
C12_Witness ==
    /\ DroppedRegistration
    /\ last.s \in alive
    /\ \E u \in Urls : Live(m_sessions, u)

\* the session resolves and reports no fatal error
Usable(s) == s \in alive /\ s \notin in_error

\* all_sessions has just returned, called in a state other than Error
Enumeration == last.op = "all_sessions" /\ last.pre.state # "Error"

\* C13: all_sessions() called in a state other than Error returns, each once,
\* exactly the sessions of the active map that resolve and report no fatal
\* error; afterwards the active map holds exactly their entries, and the
\* waiting map, the state and the token are as before.
C13_EnumerationPrunes ==
    Enumeration
        => LET kept == {u \in Urls : Usable(last.pre.sessions[u])}
           IN  /\ Range(last.ret_sessions) = {last.pre.sessions[u] : u \in kept}
               /\ Len(last.ret_sessions) = Cardinality(kept)
               /\ m_sessions = [u \in Urls |-> IF u \in kept
                                               THEN last.pre.sessions[u]
                                               ELSE NoSession]
               /\ m_waiting_sessions = last.pre.waiting
               /\ m_state = last.pre.state
               /\ m_refresh_token = last.pre.token

\* an enumeration that pruned one entry and kept the entry after it
C13_Witness ==
    /\ Enumeration
    /\ \E u, v \in Urls :
          /\ u < v
          /\ last.pre.sessions[u] # NoSession /\ m_sessions[u] = NoSession
          /\ m_sessions[v] # NoSession
          /\ last.ret_sessions = <<m_sessions[v]>>

\* the step just taken was all_sessions() or session_for_url(u), called in a
\* state other than Error with a fatally errored session in the active map at u
FoundInError(u) ==
    /\ last.pre.state # "Error"
    /\ last.pre.sessions[u] # NoSession
    /\ is_in_error_state(last.pre.sessions[u])
    /\ \/ last.op = "all_sessions"
       \/ last.op = "session_for_url" /\ last.url = u

\* C14: in a state other than Error, all_sessions() and session_for_url(u) each
\* prune the entry of a session of the active map that reports a fatal error
\* and do not return it.
C14_ErrorPrunedOnBoth ==
    \A u \in Urls :
        FoundInError(u)
            => /\ m_sessions[u] = NoSession
               /\ last.ret_session # last.pre.sessions[u]
               /\ last.pre.sessions[u] \notin Range(last.ret_sessions)

\* the user that the critical section of log_out (lines 131-151) leaves when it
\* runs alone on the user pre and notifies the sessions counted in log_outs
LogOutAlone(pre, log_outs) ==
    [state    |-> "LoggedOut",
     token    |-> pre.token,
     sessions |-> EmptyMap,
     waiting  |-> [u \in Urls |-> IF /\ pre.sessions[u] # NoSession
                                     /\ log_outs[pre.sessions[u]] > 0
                                  THEN pre.sessions[u]
                                  ELSE pre.waiting[u]]]

\* a log_out that took the lock has just released it
LogOutDone == last.op = "log_out" /\ last.returned /\ ~last.began

\* C15: the lock linearizes log_out, update_refresh_token and invalidate: while
\* one thread holds the lock no other call runs a critical section (no call
\* begins on the user, no accessor returns, state and token stay, the lock goes
\* to no other thread), a critical section begins only with the lock free, and
\* a log_out leaves the user exactly as its critical section run alone on the
\* user it found would.
C15_Linearized ==
    [][/\ m_mutex # NoThread
            => /\ m_mutex' \in {m_mutex, NoThread}
               /\ last'.op \in {"-", "log_out"}
               /\ ~last'.began
               /\ m_state' = m_state
               /\ m_refresh_token' = m_refresh_token
               /\ \A t \in Threads \ {m_mutex} : pc'[t] = pc[t] \/ pc[t] = "revive"
       /\ (m_mutex = NoThread /\ Snap' # Snap)
            => /\ last'.began
               /\ last'.op \in {"all_sessions", "session_for_url",
                                "update_refresh_token", "log_out",
                                "invalidate", "register_session"}
       /\ LogOutDone'
            => /\ m_mutex # NoThread /\ m_mutex' = NoThread
               /\ Snap' = LogOutAlone(last'.pre, last'.log_outs)]_vars

\* a log_out that notified a session released the lock while the other thread
\* was inside a call of its own
C15_Witness ==
    /\ LogOutDone
    /\ \E s \in Sessions : last.log_outs[s] > 0
    /\ \E t \in Threads : pc[t] # "done"

\* the metadata updates a call issues are recorded with the step that issues
\* them: construction, the critical section of update_refresh_token, the end
\* of the critical section of log_out
Upsert(token) == <<<<"set_state", token>>>>

MarkForRemoval == <<<<"mark_for_removal">>>>

\* C16: metadata updates are for non-admin users only: construction and every
\* update_refresh_token(t) in state Active or LoggedOut of a non-admin user
\* issue exactly one upsert carrying the current token, log_out() of a
\* non-admin user from Active issues exactly one mark-for-removal, and no
\* step of an admin user issues an update.
C16_MetadataFollowsTransitions ==
    /\ m_is_admin => last.meta = <<>>
    /\ (~m_is_admin /\ last.op = "SyncUser")
         => last.meta = Upsert(m_refresh_token)
    /\ (~m_is_admin /\ last.op = "update_refresh_token")
         => IF last.began /\ last.pre.state \in {"Active", "LoggedOut"}
            THEN last.meta = Upsert(m_refresh_token) /\ m_refresh_token = last.tok
            ELSE last.meta = <<>>
    /\ (~m_is_admin /\ last.op = "log_out" /\ last.pre.state = "Active")
         => IF LogOutDone THEN last.meta = MarkForRemoval ELSE last.meta = <<>>

\* a non-admin user logged out and was given a token again
C16_Witness ==
    /\ ~m_is_admin
    /\ last.op = "update_refresh_token" /\ last.began
    /\ last.pre.state = "LoggedOut"
    /\ last.meta = Upsert(last.tok)

\* the critical section of update_refresh_token has just run on a user that was
\* Active or LoggedOut
TokenGiven ==
    /\ last.op = "update_refresh_token" /\ last.began
    /\ last.pre.state \in {"Active", "LoggedOut"}

\* C17: update_refresh_token(t) in state Active or LoggedOut leaves the user
\* Active with token t; the token changes in no step but the critical section
\* of an update_refresh_token, and refresh_token() returns it; and when the
\* user was already Active the call changes only the token: it returns at
\* once, neither map changes and no session is revived, bound or logged out.
C17_UpdateSetsToken ==
    [][/\ TokenGiven'
            => /\ m_state' = "Active"
               /\ m_refresh_token' = last'.tok
       /\ m_refresh_token' # m_refresh_token => TokenGiven'
       /\ last'.op = "refresh_token" => last'.ret = m_refresh_token
       /\ (TokenGiven' /\ last'.pre.state = "Active")
            => /\ last'.returned
               /\ m_sessions' = m_sessions
               /\ m_waiting_sessions' = m_waiting_sessions
               /\ sessions_to_revive' = sessions_to_revive
               /\ last'.worklist = <<>>
               /\ last'.revives = Zero /\ last'.binds = Zero
               /\ last'.log_outs = Zero
               /\ pc' = pc /\ ptr' = ptr]_vars

\* an Active user with a session was given another token
C17_Witness ==
    /\ TokenGiven
    /\ last.pre.state = "Active"
    /\ last.pre.token # last.tok
    /\ \E u \in Urls : Live(m_sessions, u)

\* C18: whenever no thread is inside a critical section, at most one of the
\* two maps has an entry; an Active user has an empty waiting map and a
\* LoggedOut user an empty active map.
C18_OneMapInUse ==
    m_mutex = NoThread
        => /\ m_sessions = EmptyMap \/ m_waiting_sessions = EmptyMap
           /\ m_state = "Active" => m_waiting_sessions = EmptyMap
           /\ m_state = "LoggedOut" => m_sessions = EmptyMap

\* a LoggedOut user holding a session registered while it was logged out, and
\* the other thread still reviving sessions for an earlier call
C18_Witness ==
    /\ m_mutex = NoThread
    /\ m_state = "LoggedOut"
    /\ last.op = "register_session" /\ last.ret = "registered"
    /\ m_waiting_sessions[last.url] = last.s
    /\ \E t \in Threads : pc[t] = "revive"

\* C19: at the instant a thread calls revive_if_needed(S) from register_session
\* or update_refresh_token the user is Active and S is in the active map.
C19_RevivedWhileOnline ==
    \A t \in Threads :
        pc[t] = "revive_state"
            => LET S == Head(sessions_to_revive[t])
               IN  /\ m_state = "Active"
                   /\ m_sessions[realm_url(S)] = S

\* a thread is inside a revival made by a call of op
Reviving(t, op) ==
    /\ pc[t] \in {"revive", "revive_state", "revive_token"}
    /\ call[t].op = op

\* C20: revive_if_needed re-enters state() and refresh_token() with the lock
\* free, so under fair scheduling every register_session and
\* update_refresh_token call returns; and the refresh_token() a revival makes
\* inside update_refresh_token(t) returns t or the token of the latest update
\* that ran after it.
C20_RevivalReturns ==
    /\ [][\A t \in Threads :
            (Reviving(t, "update_refresh_token")
               /\ pc[t] = "revive_token" /\ pc'[t] # "revive_token")
            => /\ last'.ret = call[t].tok
               /\ last'.op \in {"revive_reads_token", "update_refresh_token"}]_vars
    /\ \A t \in Threads :
          (Reviving(t, "register_session") \/ Reviving(t, "update_refresh_token"))
              ~> pc[t] = "done"

\* a revival of update_refresh_token(t) is about to read the token after another
\* thread's update has replaced t, the other thread being inside a revival too
C20_Witness ==
    \E t \in Threads :
        /\ Reviving(t, "update_refresh_token")
        /\ pc[t] = "revive_token"
        /\ last.op = "update_refresh_token" /\ last.began
        /\ last.tok = call[t].tok
        /\ \E o \in Threads \ {t} : pc[o] \in {"revive", "revive_state", "revive_token"}

====
